---- MODULE Spec2Model ----
(***************************************************************************)
(* Model of the chocomufin command line (src/chocomufin/cli.py): the group *)
(* callback `main` and the commands `control`, `convert`, `generate` and   *)
(* `get-hex`.  One run of the program is one behaviour: Init fixes the     *)
(* command line and the files on disk, Main stores the --norm option in    *)
(* the click context, and the command's steps follow.                      *)
(*                                                                         *)
(* Paths are sequences of one-character strings, texts are sequences of    *)
(* codepoints.  chocomufin/funcs.py and chocomufin/parsers.py are modelled *)
(* from the specification (Normalize, ParseTable, CheckFile, ConvertFile,  *)
(* GetHexOf, CharName, UpdateTable, Dump).  The --parser choice only       *)
(* selects the library class that reads a document; a document is its text *)
(* or unparseable, so the choice is not a variable.  A text-mode write     *)
(* fails when the locale's encoding cannot encode the text (CanEncode).    *)
(***************************************************************************)
EXTENDS Integers, Sequences, FiniteSets, TLC

VARIABLES
    cmd,            \* the sub-command of this run
    normOpt,        \* value of -n/--norm on the command line, "None" when absent
    ctx,            \* ctx.obj
    tableFile,      \* content of the TABLE file
    files,          \* FILES, in command-line order
    fs,             \* the disk: path -> document
    opt,            \* --ignore (control) or --suffix (convert)
    locale,         \* encoding that open(path, "w") uses
    string,         \* STRING argument of get-hex
    mode,           \* --mode of generate
    pc,             \* position of the run
    i,              \* index of the next file of the for loop
    control_table,  \* result of Translator.parse
    errors,         \* defaultdict(list), in insertion order
    missing_chars,  \* set of all unknown characters
    out,            \* what was printed
    exit_code,      \* sys.exit code, -1 while running
    reads,          \* indices of the files handed to check_file/convert_file
    opened,         \* open(path, "w") calls: [idx, path]
    written,        \* completed f.write calls: [idx, path, text]
    passed          \* normalization_method of every library call made

vars == <<cmd, normOpt, ctx, tableFile, files, fs, opt, locale, string, mode,
          pc, i, control_table, errors, missing_chars, out, exit_code, reads,
          opened, written, passed>>

----------------------------------------------------------------------------
(* Bounds *)

MaxFiles == 2

MaxStrLen == 3

----------------------------------------------------------------------------
(* Strings *)

Range(s) == {s[k] : k \in 1..Len(s)}

SeqsUpTo(S, n) == UNION {[1..k -> S] : k \in 0..n}

\* sub occurs in s at position k
IsSubAt(sub, s, k) ==
    /\ k + Len(sub) - 1 <= Len(s)
    /\ \A j \in 1..Len(sub) : s[k + j - 1] = sub[j]

\* Python: sub in s
Contains(sub, s) == \E k \in 1..(Len(s) + 1) : IsSubAt(sub, s, k)

RECURSIVE ReplaceFrom(_, _, _, _)
ReplaceFrom(s, old, new, k) ==
    IF k > Len(s) THEN <<>>
    ELSE IF IsSubAt(old, s, k) THEN new \o ReplaceFrom(s, old, new, k + Len(old))
    ELSE <<s[k]>> \o ReplaceFrom(s, old, new, k + 1)

\* Python: s.replace(old, new), old not empty
Replace(s, old, new) == ReplaceFrom(s, old, new, 1)

XML == <<".", "x", "m", "l">>

\* OutPath with a replace that matches nothing: the input path comes back
OutPathUnreplaced(file, suffix) ==
    IF Contains(XML, file) THEN file ELSE file \o suffix

\* the path convert writes for `file` (cli.py line 128)
OutPath(file, suffix) ==
    IF Contains(XML, file) THEN Replace(file, XML, suffix) ELSE file \o suffix

\* Skip with the test dropped: every file is processed
SkipNever(option, file) == FALSE

\* Skip with the operands of `in` exchanged
SkipReversed(option, file) == Contains(file, option)

\* `ignore in file` / `suffix in file`: skip converted content
Skip(option, file) == Contains(option, file)

----------------------------------------------------------------------------
(* Characters and the library (chocomufin.funcs, chocomufin.parsers) *)

\* the codepoints the texts of the model are made of
CP == [a |-> 97, b |-> 98, e |-> 101, space |-> 32, eacute |-> 233, acute |-> 769]

Whitespace == {CP.space}

HexDigit == <<"0", "1", "2", "3", "4", "5", "6", "7",
              "8", "9", "a", "b", "c", "d", "e", "f">>

RECURSIVE HexDigitsOf(_)
HexDigitsOf(n) ==
    IF n < 16 THEN <<HexDigit[n + 1]>>
    ELSE HexDigitsOf(n \div 16) \o <<HexDigit[(n % 16) + 1]>>

\* Python: hex(n)
Hex(n) == <<"0", "x">> \o HexDigitsOf(n)

\* canonical composition: e + combining acute -> e-acute
RECURSIVE Compose(_)
Compose(s) ==
    IF Len(s) = 0 THEN <<>>
    ELSE IF Len(s) >= 2 /\ s[1] = CP.e /\ s[2] = CP.acute
         THEN <<CP.eacute>> \o Compose(SubSeq(s, 3, Len(s)))
    ELSE <<s[1]>> \o Compose(Tail(s))

\* canonical decomposition: e-acute -> e + combining acute
RECURSIVE Decompose(_)
Decompose(s) ==
    IF Len(s) = 0 THEN <<>>
    ELSE IF s[1] = CP.eacute THEN <<CP.e, CP.acute>> \o Decompose(Tail(s))
    ELSE <<s[1]>> \o Decompose(Tail(s))

\* funcs.normalize(string, method)
Normalize(s, method) ==
    CASE method = "NFC" -> Compose(Decompose(s))
      [] method = "NFD" -> Decompose(s)
      [] OTHER -> s

\* funcs.get_hex(char)
GetHexOf(c) == Hex(c)

\* funcs.get_character_name(char, raise_exception=False)
CharName(c) ==
    CASE c = CP.a -> "LATIN SMALL LETTER A"
      [] c = CP.b -> "LATIN SMALL LETTER B"
      [] c = CP.e -> "LATIN SMALL LETTER E"
      [] c = CP.eacute -> "LATIN SMALL LETTER E WITH ACUTE"
      [] c = CP.acute -> "COMBINING ACUTE ACCENT"
      [] c = CP.space -> "SPACE"
      [] OTHER -> "[UNKNOWN-NAME]"

\* Python: char.strip(), as a string of zero or one character
Strip(c) == IF c \in Whitespace THEN <<>> ELSE <<c>>

\* Translator.parse: a row whose source column is not one character is a
\* TableFormatError; source and replacement are normalized at load time
TableOk(tf) == \A k \in 1..Len(tf) : Len(tf[k].char) = 1

ParseTable(tf, method) ==
    [key \in {Normalize(tf[k].char, method) : k \in 1..Len(tf)} |->
        LET k == CHOOSE k \in 1..Len(tf) : Normalize(tf[k].char, method) = key
        IN  Normalize(tf[k].repl, method)]

\* check_file: characters of the normalized text that are neither
\* whitespace nor keys of the table
CheckFile(doc, translator, method) ==
    {c \in Range(Normalize(doc.text, method)) :
        c \notin Whitespace /\ <<c>> \notin DOMAIN translator}

RECURSIVE Translate(_, _)
Translate(s, translator) ==
    IF Len(s) = 0 THEN <<>>
    ELSE (IF <<s[1]>> \in DOMAIN translator THEN translator[<<s[1]>>]
          ELSE <<s[1]>>) \o Translate(Tail(s), translator)

\* convert_file: every character replaced by its mapped equivalent,
\* characters absent from the table pass through
ConvertFile(doc, translator, method) ==
    [ok |-> TRUE, text |-> Translate(Normalize(doc.text, method), translator)]

\* Parser.dump
Dump(instance) == instance.text

\* text-mode write under the encoding of open(path, "w")
CanEncode(enc, text) == enc = "utf-8" \/ \A k \in 1..Len(text) : text[k] < 128

\* characters of the texts in first-seen order, whitespace left out
RECURSIVE Discovered(_, _)
Discovered(s, seen) ==
    IF Len(s) = 0 THEN seen
    ELSE IF s[1] \in Whitespace \/ s[1] \in Range(seen) THEN Discovered(Tail(s), seen)
    ELSE Discovered(Tail(s), Append(seen, s[1]))

\* update_table: the source characters of the new table, per merge mode
UpdateTable(m, oldKeys, found) ==
    LET fresh == SelectSeq(found, LAMBDA c : c \notin Range(oldKeys))
    IN  CASE m = "keep" -> oldKeys \o fresh
          [] m = "reset" -> found
          [] OTHER -> SelectSeq(oldKeys, LAMBDA c : c \in Range(found)) \o fresh

----------------------------------------------------------------------------
(* cli.py *)

\* default of the -n/--norm option
NormDefault == "None"

\* the value click hands to main() as `norm`
NormArg(option) == IF option = "absent" THEN NormDefault ELSE option

\* _get_unorm(ctx)
get_unorm(c) == IF "unorm" \in DOMAIN c THEN c["unorm"] ELSE "None"

\* the orders in which `for char in new_chars` can visit a set
Orders(S) ==
    {o \in [1..Cardinality(S) -> S] : \A j, k \in 1..Cardinality(S) : o[j] = o[k] => j = k}

\* AppendError that inserts the file at the front of the list
AppendErrorFront(errs, char, file) ==
    IF \E k \in 1..Len(errs) : errs[k].char = char
    THEN [k \in 1..Len(errs) |->
            IF errs[k].char = char
            THEN [errs[k] EXCEPT !.files = <<file>> \o @]
            ELSE errs[k]]
    ELSE Append(errs, [char |-> char, files |-> <<file>>])

\* errors[char].append(file) on a defaultdict(list)
AppendError(errs, char, file) ==
    IF \E k \in 1..Len(errs) : errs[k].char = char
    THEN [k \in 1..Len(errs) |->
            IF errs[k].char = char
            THEN [errs[k] EXCEPT !.files = Append(@, file)]
            ELSE errs[k]]
    ELSE Append(errs, [char |-> char, files |-> <<file>>])

\* for char in new_chars: errors[char].append(file)
RECURSIVE AppendErrors(_, _, _)
AppendErrors(errs, order, file) ==
    IF Len(order) = 0 THEN errs
    ELSE AppendErrors(AppendError(errs, order[1], file), Tail(order), file)

\* EntryRows with the slice errors[char][1:] taken from 0
EntryRowsAll(entry) ==
    <<[char |-> Strip(entry.char), hex |-> GetHexOf(entry.char),
       name |-> CharName(entry.char), file |-> entry.files[1]]>>
    \o [k \in 1..Len(entry.files) |->
          [char |-> <<>>, hex |-> <<>>, name |-> "", file |-> entry.files[k]]]

\* the rows control appends for one entry of errors
EntryRows(entry) ==
    <<[char |-> Strip(entry.char), hex |-> GetHexOf(entry.char),
       name |-> CharName(entry.char), file |-> entry.files[1]]>>
    \o [k \in 1..(Len(entry.files) - 1) |->
          [char |-> <<>>, hex |-> <<>>, name |-> "", file |-> entry.files[k + 1]]]

\* the data rows of the controlling table, header left out
RECURSIVE ReportRows(_)
ReportRows(errs) ==
    IF Len(errs) = 0 THEN <<>>
    ELSE EntryRows(errs[1]) \o ReportRows(Tail(errs))

\* what control prints and the code it exits with
ControlOutput(errs) ==
    LET rows == ReportRows(errs)
    IN  IF Len(rows) + 1 > 1
        THEN [code |-> 1,
              out |-> <<[kind |-> "ERROR", count |-> Len(errs), rows |-> <<>>],
                        [kind |-> "REPORT", count |-> 0, rows |-> rows]>>]
        ELSE [code |-> 0,
              out |-> <<[kind |-> "No new characters found", count |-> 0, rows |-> <<>>]>>]

\* hex_for_string(inp)
hex_for_string(inp) == [k \in 1..Len(inp) |-> Hex(inp[k])]

\* Python: zip(a, b)
Zip(a, b) ==
    [k \in 1..(IF Len(a) < Len(b) THEN Len(a) ELSE Len(b)) |-> <<a[k], b[k]>>]

\* the rows get-hex prints
HexRows(str, method) ==
    LET normalized == Normalize(str, method)
        normalized_list == [k \in 1..Len(normalized) |-> <<CP.space, normalized[k]>>]
    IN  Zip(normalized_list, hex_for_string(str))

\* an exception leaves the command: the run ends with a traceback
Raise == "aborted"

\* NextIndex that steps over a file
NextIndexSkipping(k) == k + 2

\* the for loop moves on to the next file of the list
NextIndex(k) == k + 1

\* open(path, "w"): the file is created or truncated
OpenW(disk, path) ==
    [q \in DOMAIN disk \cup {path} |->
        IF q = path THEN [ok |-> TRUE, text |-> <<>>] ELSE disk[q]]

\* f.write(text) on a file just opened with "w"
WriteText(disk, path, text) ==
    [q \in DOMAIN disk |-> IF q = path THEN [ok |-> TRUE, text |-> text] ELSE disk[q]]

----------------------------------------------------------------------------
(* The command lines and disks of the model *)

PathSet ==
    { <<"a">>,
      <<"a", ".", "x", "m", "l">>,
      <<"a", ".", "x", "m", "l", "b">>,
      <<"a", ".", "m">>,
      <<"a", ".", "m", ".", "x", "m", "l">> }

OptionSet == { <<".", "x", "m", "l">>, <<".", "m">>, <<".", "m", ".", "x", "m", "l">> }

DocSet ==
    { [ok |-> TRUE, text |-> <<CP.a>>],
      [ok |-> TRUE, text |-> <<CP.a, CP.space, CP.b>>],
      [ok |-> TRUE, text |-> <<CP.eacute, CP.b>>],
      [ok |-> FALSE, text |-> <<>>] }

TableSet ==
    { <<[char |-> <<CP.a>>, repl |-> <<CP.a>>]>>,
      <<[char |-> <<CP.a>>, repl |-> <<CP.a>>],
        [char |-> <<CP.b>>, repl |-> <<CP.b>>],
        [char |-> <<CP.eacute>>, repl |-> <<CP.e>>]>>,
      <<[char |-> <<CP.a, CP.b>>, repl |-> <<CP.a>>]>> }

NormOptions == {"absent", "NFC", "NFD"}

HexChars == {CP.a, CP.e, CP.acute, CP.eacute}

NoCtx == [k \in {} |-> "None"]

NoTable == [k \in {} |-> <<>>]

Fresh ==
    /\ ctx = NoCtx
    /\ pc = "main"
    /\ i = 0
    /\ control_table = NoTable
    /\ errors = <<>>
    /\ missing_chars = {}
    /\ out = <<>>
    /\ exit_code = -1
    /\ reads = <<>>
    /\ opened = <<>>
    /\ written = <<>>
    /\ passed = <<>>

InitFiles ==
    /\ normOpt \in NormOptions
    /\ tableFile \in TableSet
    /\ files \in SeqsUpTo(PathSet, MaxFiles)
    /\ fs \in [Range(files) -> DocSet]
    /\ string = <<>>

InitControl ==
    /\ cmd = "control"
    /\ InitFiles
    /\ opt \in OptionSet
    /\ locale = "utf-8"
    /\ mode = "keep"

InitConvert ==
    /\ cmd = "convert"
    /\ InitFiles
    /\ opt \in OptionSet
    /\ locale \in {"utf-8", "ascii"}
    /\ mode = "keep"

InitGenerate ==
    /\ cmd = "generate"
    /\ InitFiles
    /\ opt = <<>>
    /\ locale = "utf-8"
    /\ mode \in {"keep", "reset", "cleanup"}

InitGetHex ==
    /\ cmd = "get-hex"
    /\ normOpt \in NormOptions
    /\ tableFile = <<>>
    /\ files = <<>>
    /\ fs = [q \in {} |-> [ok |-> TRUE, text |-> <<>>]]
    /\ string \in SeqsUpTo(HexChars, MaxStrLen)
    /\ opt = <<>>
    /\ locale = "utf-8"
    /\ mode = "keep"

Init == Fresh /\ (InitControl \/ InitConvert \/ InitGenerate \/ InitGetHex)

inputs == <<cmd, normOpt, tableFile, files, opt, locale, string, mode>>

Call(name) == [call |-> name, norm |-> get_unorm(ctx)]

----------------------------------------------------------------------------
(* main *)

Main ==
    /\ pc = "main"
    /\ ctx' = [unorm |-> NormArg(normOpt)]
    /\ pc' = "parse"
    /\ UNCHANGED <<inputs, fs, i, control_table, errors, missing_chars, out,
                   exit_code, reads, opened, written, passed>>

\* control_table = Translator.parse(table, normalization_method=_get_unorm(ctx))
ParseStep ==
    /\ passed' = Append(passed, Call("Translator.parse"))
    /\ IF TableOk(tableFile)
       THEN /\ control_table' = ParseTable(tableFile, get_unorm(ctx))
            /\ pc' = "loop"
            /\ i' = 1
       ELSE /\ pc' = Raise
            /\ UNCHANGED <<control_table, i>>
    /\ UNCHANGED <<inputs, ctx, fs, errors, missing_chars, out, exit_code,
                   reads, opened, written>>

----------------------------------------------------------------------------
(* control *)

ControlParse ==
    /\ cmd = "control"
    /\ pc = "parse"
    /\ ParseStep

\* one iteration of `for file in tqdm.tqdm(files)`
ControlFile ==
    /\ cmd = "control"
    /\ pc = "loop"
    /\ i <= Len(files)
    /\ LET file == files[i]
       IN  IF Skip(opt, file)
           THEN /\ i' = NextIndex(i)
                /\ UNCHANGED <<pc, errors, missing_chars, reads, passed>>
           ELSE /\ reads' = Append(reads, i)
                /\ passed' = Append(passed, Call("check_file"))
                /\ IF fs[file].ok
                   THEN LET new_chars == CheckFile(fs[file], control_table, get_unorm(ctx))
                        IN  /\ \E order \in Orders(new_chars) :
                                 errors' = AppendErrors(errors, order, file)
                            /\ missing_chars' = missing_chars \cup new_chars
                            /\ i' = NextIndex(i)
                            /\ UNCHANGED pc
                   ELSE /\ pc' = Raise
                        /\ UNCHANGED <<i, errors, missing_chars>>
    /\ UNCHANGED <<inputs, ctx, fs, control_table, out, exit_code, opened, written>>

\* the controlling table is generated, printed, and the process exits
ControlReport ==
    /\ cmd = "control"
    /\ pc = "loop"
    /\ i > Len(files)
    /\ out' = ControlOutput(errors).out
    /\ exit_code' = ControlOutput(errors).code
    /\ pc' = "done"
    /\ UNCHANGED <<inputs, ctx, fs, i, control_table, errors, missing_chars,
                   reads, opened, written, passed>>

----------------------------------------------------------------------------
(* convert *)

ConvertParse ==
    /\ cmd = "convert"
    /\ pc = "parse"
    /\ ParseStep

\* one iteration of `for file in tqdm.tqdm(files)`
ConvertStep ==
    /\ cmd = "convert"
    /\ pc = "loop"
    /\ i <= Len(files)
    /\ LET file == files[i]
       IN  IF Skip(opt, file)
           THEN /\ i' = NextIndex(i)
                /\ UNCHANGED <<pc, fs, reads, opened, written, passed>>
           ELSE /\ reads' = Append(reads, i)
                /\ passed' = Append(passed, Call("convert_file"))
                /\ IF fs[file].ok
                   THEN LET instance == ConvertFile(fs[file], control_table, get_unorm(ctx))
                            path == OutPath(file, opt)
                            disk == OpenW(fs, path)
                            text == Dump(instance)
                        IN  /\ opened' = Append(opened, [idx |-> i, path |-> path])
                            /\ IF CanEncode(locale, text)
                               THEN /\ fs' = WriteText(disk, path, text)
                                    /\ written' = Append(written,
                                          [idx |-> i, path |-> path, text |-> text])
                                    /\ i' = NextIndex(i)
                                    /\ UNCHANGED pc
                               ELSE /\ fs' = disk
                                    /\ pc' = Raise
                                    /\ UNCHANGED <<i, written>>
                   ELSE /\ pc' = Raise
                        /\ UNCHANGED <<i, fs, opened, written>>
    /\ UNCHANGED <<inputs, ctx, control_table, errors, missing_chars, out, exit_code>>

ConvertDone ==
    /\ cmd = "convert"
    /\ pc = "loop"
    /\ i > Len(files)
    /\ exit_code' = 0
    /\ pc' = "done"
    /\ UNCHANGED <<inputs, ctx, fs, i, control_table, errors, missing_chars, out,
                   reads, opened, written, passed>>

----------------------------------------------------------------------------
(* generate *)

RECURSIVE AllText(_)
AllText(k) ==
    IF k > Len(files) THEN <<>>
    ELSE Normalize(fs[files[k]].text, get_unorm(ctx)) \o AllText(k + 1)

Generate ==
    /\ cmd = "generate"
    /\ pc = "parse"
    /\ passed' = Append(passed, Call("update_table"))
    /\ IF TableOk(tableFile) /\ \A k \in 1..Len(files) : fs[files[k]].ok
       THEN /\ out' = <<[kind |-> "table", count |-> 0,
                         rows |-> UpdateTable(mode,
                                    [k \in 1..Len(tableFile) |->
                                        Normalize(tableFile[k].char, get_unorm(ctx))[1]],
                                    Discovered(AllText(1), <<>>))]>>
            /\ exit_code' = 0
            /\ pc' = "done"
       ELSE /\ pc' = Raise
            /\ UNCHANGED <<out, exit_code>>
    /\ UNCHANGED <<inputs, ctx, fs, i, control_table, errors, missing_chars,
                   reads, opened, written>>

----------------------------------------------------------------------------
(* get-hex *)

GetHex ==
    /\ cmd = "get-hex"
    /\ pc = "parse"
    /\ passed' = Append(passed, Call("normalize"))
    /\ out' = <<[kind |-> "hex", count |-> 0, rows |-> HexRows(string, get_unorm(ctx))]>>
    /\ exit_code' = 0
    /\ pc' = "done"
    /\ UNCHANGED <<inputs, ctx, fs, i, control_table, errors, missing_chars,
                   reads, opened, written>>

----------------------------------------------------------------------------

Next ==
    \/ Main
    \/ ControlParse
    \/ ControlFile
    \/ ControlReport
    \/ ConvertParse
    \/ ConvertStep
    \/ ConvertDone
    \/ Generate
    \/ GetHex

Spec == Init /\ [][Next]_vars

----------------------------------------------------------------------------
(* Properties *)

Indices(n) == [k \in 1..n |-> k]

\* the file at position k carries the option string in its path
Marked(k) == Contains(opt, files[k])

\* positions 1..n whose path does not carry the option string, in order
Unmarked(n) == SelectSeq(Indices(n), LAMBDA k : ~Marked(k))

\* the characters of file k that check_file reports
Unknown(k) == CheckFile(fs[files[k]], control_table, get_unorm(ctx))

ControlDone == cmd = "control" /\ pc = "done"

ConvertDoneState == cmd = "convert" /\ pc = "done"

SaysNoNew == \E k \in 1..Len(out) : out[k].kind = "No new characters found"

SaysReport == \E k \in 1..Len(out) : out[k].kind = "REPORT"

\* C1 as stated: control exits 0 with "No new characters found" exactly when
\* no file of the command line, ignored ones included, holds a character that
\* is missing from the table; every other completed run exits 1 with the report.
C1_AllFilesOriginal ==
    ControlDone =>
        /\ (exit_code = 0 /\ SaysNoNew) <=> (\A k \in 1..Len(files) : Unknown(k) = {})
        /\ ~(exit_code = 0 /\ SaysNoNew) => (exit_code = 1 /\ SaysReport)

\* C1 amended: control exits 0 with "No new characters found" exactly when
\* check_file reports no character for any file whose path does not contain
\* the --ignore string; every other completed run exits 1 with the report.
C1_ExitCode ==
    ControlDone =>
        /\ (exit_code = 0 /\ SaysNoNew /\ ~SaysReport)
              <=> (\A k \in 1..Len(files) : ~Marked(k) => Unknown(k) = {})
        /\ ~(exit_code = 0 /\ SaysNoNew) => (exit_code = 1 /\ SaysReport /\ ~SaysNoNew)

C1_Witness ==
    /\ ControlDone
    /\ exit_code = 0
    /\ \E k \in 1..Len(files) : Marked(k) /\ Unknown(k) # {}
    /\ \E k \in 1..Len(files) : ~Marked(k)

WrittenPaths == {written[k].path : k \in 1..Len(written)}

WritesFor(j) == {k \in 1..Len(written) : written[k].idx = j}

\* C2 as stated: a completed convert run has written an output for every
\* input file, and the number of distinct output paths equals the number of
\* input files.
C2_OnePerInputOriginal ==
    ConvertDoneState =>
        /\ \A j \in 1..Len(files) : WritesFor(j) # {}
        /\ Cardinality(WrittenPaths) = Len(files)

\* C2 amended: a completed convert run has written exactly one output for
\* every input file whose path does not contain the suffix and none for the
\* others; the distinct output paths are at most as many as those inputs.
C2_OnePerConverted ==
    ConvertDoneState =>
        /\ \A j \in 1..Len(files) :
              Cardinality(WritesFor(j)) = (IF Marked(j) THEN 0 ELSE 1)
        /\ Len(written) = Len(Unmarked(Len(files)))
        /\ Cardinality(WrittenPaths) <= Len(Unmarked(Len(files)))
        /\ \A k \in 1..Len(written) :
              /\ written[k].path \in DOMAIN fs
              /\ fs[written[k].path].ok

C2_Witness ==
    /\ ConvertDoneState
    /\ Len(files) = 2
    /\ Len(written) = 2
    /\ Cardinality(WrittenPaths) = 1
    /\ files[1] # files[2]

EndsWith(s, tail) ==
    Len(s) >= Len(tail) /\ SubSeq(s, Len(s) - Len(tail) + 1, Len(s)) = tail

\* the output path the documentation describes
TrailingOutPath(p, suffix) ==
    IF EndsWith(p, XML) THEN SubSeq(p, 1, Len(p) - Len(XML)) \o suffix ELSE p \o suffix

\* C3: the path convert opens for input p is p with a trailing ".xml" replaced
\* by the suffix, or p followed by the suffix; nothing else of p changes.
C3_TrailingXmlOnly ==
    cmd = "convert" =>
        \A k \in 1..Len(opened) :
            opened[k].path = TrailingOutPath(files[opened[k].idx], opt)

\* C4: get-hex prints one row per character of the normalized string, in
\* order, and the hexadecimal value of a row is the codepoint of the character
\* shown in that row.
C4_RowsOfNormalized ==
    (cmd = "get-hex" /\ pc = "done") =>
        LET rows == out[1].rows
            normalized == Normalize(string, get_unorm(ctx))
        IN  /\ Len(rows) = Len(normalized)
            /\ \A k \in 1..Len(rows) :
                  /\ rows[k][1] = <<CP.space, normalized[k]>>
                  /\ rows[k][2] = Hex(rows[k][1][2])

\* C5: when convert aborts on a file, no output file for that file has been
\* created, truncated or written.
C5_NoPartialOutput ==
    (cmd = "convert" /\ pc = "aborted" /\ i \in 1..Len(files)) =>
        \A k \in 1..Len(opened) : opened[k].idx # i

\* the files among the first n processed ones in which c was found, in order
FoundIn(c, n) ==
    LET hits == SelectSeq(Unmarked(n), LAMBDA k : c \in Unknown(k))
    IN  [k \in 1..Len(hits) |-> files[hits[k]]]

\* the position of the first processed file in which c was found
FirstFound(c, n) ==
    CHOOSE k \in 1..n :
        /\ ~Marked(k) /\ c \in Unknown(k)
        /\ \A j \in 1..(k - 1) : Marked(j) \/ c \notin Unknown(j)

AllUnknown(n) == UNION {Unknown(k) : k \in {j \in 1..n : ~Marked(j)}}

\* the number of files control has gone through
Processed == IF pc = "done" THEN Len(files) ELSE i - 1

\* C6: the report maps each unknown character to exactly the files in which
\* it was found, in processing order; its keys are the characters found
\* unknown in some processed file, in discovery order.
C6_ReportMapping ==
    (cmd = "control" /\ pc \in {"loop", "done"}) =>
        /\ {errors[k].char : k \in 1..Len(errors)} = AllUnknown(Processed)
        /\ missing_chars = AllUnknown(Processed)
        /\ \A j, k \in 1..Len(errors) : errors[j].char = errors[k].char => j = k
        /\ \A k \in 1..Len(errors) :
              errors[k].files = FoundIn(errors[k].char, Processed)
        /\ \A j, k \in 1..Len(errors) :
              j < k => FirstFound(errors[j].char, Processed)
                          <= FirstFound(errors[k].char, Processed)

C6_Witness ==
    /\ ControlDone
    /\ Len(errors) >= 2
    /\ \E k \in 1..Len(errors) :
          Len(errors[k].files) = 2 /\ errors[k].files[1] # errors[k].files[2]
    /\ \E j, k \in 1..Len(errors) :
          FirstFound(errors[j].char, Len(files)) < FirstFound(errors[k].char, Len(files))

\* C7: without a normalization option every library call is given NFC, and
\* all calls of one invocation are given the same scheme.
C7_DefaultIsNFC ==
    /\ normOpt = "absent" => \A k \in 1..Len(passed) : passed[k].norm = "NFC"
    /\ \A j, k \in 1..Len(passed) : passed[j].norm = passed[k].norm

\* the files the loop has left behind it
Behind == IF pc = "done" THEN Len(files) ELSE IF i = 0 THEN 0 ELSE i - 1

\* position of the file the run aborted on, 0 when it aborted before the loop
FailedAt == IF pc = "aborted" THEN i ELSE 0

\* C8: files are processed one at a time in list order.  The outputs written
\* so far are those of the converted files of a prefix of the list, each
\* holding the conversion of its input; after a fatal error on file k nothing
\* past k has been read or opened and the run takes no further step; control
\* prints neither the report nor "No new characters found" after a fatal error.
C8_InOrderAndAbort ==
    /\ i <= Len(files) + 1
    /\ cmd = "convert" =>
          /\ [k \in 1..Len(written) |-> written[k].idx] = Unmarked(Behind)
          /\ \A k \in 1..Len(written) :
                written[k].text =
                    Dump(ConvertFile(fs[files[written[k].idx]], control_table,
                                     get_unorm(ctx)))
          /\ \A k \in 1..Len(opened) : opened[k].idx <= Behind \/ opened[k].idx = FailedAt
    /\ cmd \in {"convert", "control"} =>
          /\ SelectSeq(reads, LAMBDA k : k # FailedAt) = Unmarked(Behind)
          /\ \A k \in 1..Len(reads) : reads[k] <= Behind \/ reads[k] = FailedAt
    /\ pc = "aborted" =>
          /\ ~ENABLED Next
          /\ out = <<>>
          /\ exit_code = -1

C8_Witness ==
    /\ cmd = "convert"
    /\ pc = "aborted"
    /\ Len(files) = 2
    /\ i = 1
    /\ ~Marked(2)
    /\ fs[files[2]].ok

\* C9: every path convert writes contains the suffix, so it is the path of no
\* file converted in the same run, and a second run with the same suffix over
\* the files produced converts none of them.
C9_OutputsCarrySuffix ==
    cmd = "convert" =>
        \A k \in 1..Len(opened) :
            /\ Contains(opt, opened[k].path)
            /\ \A j \in 1..Len(files) : ~Marked(j) => opened[k].path # files[j]
            /\ Skip(opt, opened[k].path)

C9_Witness ==
    /\ ConvertDoneState
    /\ Len(written) = 2
    /\ written[1].path # written[2].path
    /\ \E k \in 1..2 : Contains(XML, files[written[k].idx])

\* the data rows control printed
ReportedRows ==
    IF SaysReport THEN (CHOOSE e \in Range(out) : e.kind = "REPORT").rows ELSE <<>>

RECURSIVE SumUnknown(_)
SumUnknown(n) ==
    IF n = 0 THEN 0
    ELSE SumUnknown(n - 1) + (IF Marked(n) THEN 0 ELSE Cardinality(Unknown(n)))

\* C10: in a control run that exits 1 the report holds, for each unknown
\* character, one full row (character, hex codepoint, name, first file)
\* immediately followed by one continuation row per further file; the data
\* rows are as many as the (unknown character, processed file) pairs, the
\* ERROR line announces the number of distinct unknown characters, and the
\* report has no data row exactly when control exits 0.
C10_ReportRows ==
    ControlDone =>
        LET rows == ReportedRows
            n == Len(files)
        IN  /\ exit_code = 1 =>
                /\ \A c \in AllUnknown(n) :
                      \E r \in 1..Len(rows) :
                          /\ rows[r] = [char |-> <<c>>, hex |-> Hex(c),
                                        name |-> CharName(c), file |-> FoundIn(c, n)[1]]
                          /\ \A q \in 1..Len(rows) : rows[q].char = <<c>> => q = r
                          /\ r + Len(FoundIn(c, n)) - 1 <= Len(rows)
                          /\ \A m \in 2..Len(FoundIn(c, n)) :
                                rows[r + m - 1] = [char |-> <<>>, hex |-> <<>>,
                                                   name |-> "", file |-> FoundIn(c, n)[m]]
                /\ Len(rows) = SumUnknown(n)
                /\ \E k \in 1..Len(out) :
                      out[k].kind = "ERROR" /\ out[k].count = Cardinality(AllUnknown(n))
            /\ (Len(rows) = 0) <=> (exit_code = 0)

C10_Witness ==
    /\ ControlDone
    /\ exit_code = 1
    /\ Len(errors) >= 2
    /\ \E k \in 1..Len(errors) : Len(errors[k].files) = 2
    /\ Len(ReportedRows) >= 3

====
